---- MODULE Spec2Model ----
(***************************************************************************)
(* The CELT bitstream decoding core: the range decoder of src/entropy.rs   *)
(* and the frame decoder of src/celt/decoder.rs.                           *)
(*                                                                         *)
(* Machine words.  The decoder's fields are `usize`.  A usize is modelled  *)
(* as a 64-bit word held in four 16-bit limbs, least significant first,    *)
(* so that 2^31 (the initial range) and the products formed by tell_frac   *)
(* are represented exactly.  Arithmetic wraps modulo 2^64 as it does in a  *)
(* build without overflow checks; every operation that wraps (or shifts by *)
(* the word width or more) also raises the decoder's `ovf` flag, which is  *)
(* where a build with overflow checks panics.  Failures that abort in      *)
(* every build (a failed assert, an index out of range, a division by      *)
(* zero, unwrap of None) are recorded in `panic` and stop the call.        *)
(***************************************************************************)
EXTENDS Integers, Sequences, FiniteSets, TLC

\* ---------------------------------------------------------------- words

Limb == 65536

Pow2(n) == 2 ^ n

\* The word holding the natural number n (n < 2^31).
U(n) == <<n % Limb, n \div Limb, 0, 0>>

UFits(a) == a[4] = 0 /\ a[3] = 0 /\ a[2] < 32768

\* The natural number held by a word below 2^31.
UNat(a) == a[2] * Limb + a[1]

ULimb(a, i) == IF i \in 1..4 THEN a[i] ELSE 0

ULt(a, b) == \E i \in 1..4 : a[i] < b[i] /\ \A j \in (i + 1)..4 : a[j] = b[j]

ULe(a, b) == a = b \/ ULt(a, b)

\* a - b modulo 2^64.
USub(a, b) ==
    LET d1 == a[1] - b[1]
        d2 == a[2] - b[2] - (IF d1 < 0 THEN 1 ELSE 0)
        d3 == a[3] - b[3] - (IF d2 < 0 THEN 1 ELSE 0)
        d4 == a[4] - b[4] - (IF d3 < 0 THEN 1 ELSE 0)
    IN  <<d1 % Limb, d2 % Limb, d3 % Limb, d4 % Limb>>

\* a + b modulo 2^64.
UAdd(a, b) ==
    LET s1 == a[1] + b[1]
        s2 == a[2] + b[2] + (s1 \div Limb)
        s3 == a[3] + b[3] + (s2 \div Limb)
        s4 == a[4] + b[4] + (s3 \div Limb)
    IN  <<s1 % Limb, s2 % Limb, s3 % Limb, s4 % Limb>>

\* a >> n for 0 <= n < 64.
UShr(a, n) ==
    LET q == n \div 16
        k == n % 16
        L(i) == (ULimb(a, i + q) \div Pow2(k))
                + (ULimb(a, i + q + 1) % Pow2(k)) * Pow2(16 - k)
    IN  <<L(1), L(2), L(3), L(4)>>

\* a << n modulo 2^64 for 0 <= n < 64.
UShl(a, n) ==
    LET q == n \div 16
        k == n % 16
        L(i) == ((ULimb(a, i - q) * Pow2(k)) % Limb)
                + (ULimb(a, i - q - 1) \div Pow2(16 - k))
    IN  <<L(1), L(2), L(3), L(4)>>

\* a * m modulo 2^64 for a small factor 0 <= m <= 32768.
UMulS(a, m) ==
    LET p1 == a[1] * m
        p2 == a[2] * m + (p1 \div Limb)
        p3 == a[3] * m + (p2 \div Limb)
        p4 == a[4] * m + (p3 \div Limb)
    IN  <<p1 % Limb, p2 % Limb, p3 % Limb, p4 % Limb>>

\* a / d (integer division) for a small divisor 1 <= d <= 32768.
UDivS(a, d) ==
    LET t4 == a[4]
        t3 == (t4 % d) * Limb + a[3]
        t2 == (t3 % d) * Limb + a[2]
        t1 == (t2 % d) * Limb + a[1]
    IN  <<t1 \div d, t2 \div d, t3 \div d, t4 \div d>>

\* The product of two limbs as <<low limb, high limb>>.
Mul16(x, y) ==
    LET t1 == (x \div 256) * y
        lo == (t1 % 256) * 256 + (x % 256) * y
    IN  <<lo % Limb, (t1 \div 256) + (lo \div Limb)>>

\* a * b modulo 2^64.
UMul(a, b) ==
    LET P(i, j) == Mul16(a[i], b[j])
        c1 == P(1, 1)[1]
        c2 == P(1, 2)[1] + P(2, 1)[1] + P(1, 1)[2] + (c1 \div Limb)
        c3 == P(1, 3)[1] + P(2, 2)[1] + P(3, 1)[1]
              + P(1, 2)[2] + P(2, 1)[2] + (c2 \div Limb)
        c4 == P(1, 4)[1] + P(2, 3)[1] + P(3, 2)[1] + P(4, 1)[1]
              + P(1, 3)[2] + P(2, 2)[2] + P(3, 1)[2] + (c3 \div Limb)
    IN  <<c1 % Limb, c2 % Limb, c3 % Limb, c4 % Limb>>

\* Whether a * b does not fit 64 bits.
UMulWraps(a, b) ==
    LET P(i, j) == Mul16(a[i], b[j])
        c1 == P(1, 1)[1]
        c2 == P(1, 2)[1] + P(2, 1)[1] + P(1, 1)[2] + (c1 \div Limb)
        c3 == P(1, 3)[1] + P(2, 2)[1] + P(3, 1)[1]
              + P(1, 2)[2] + P(2, 1)[2] + (c2 \div Limb)
        c4 == P(1, 4)[1] + P(2, 3)[1] + P(3, 2)[1] + P(4, 1)[1]
              + P(1, 3)[2] + P(2, 2)[2] + P(3, 1)[2] + (c3 \div Limb)
    IN  \/ c4 >= Limb
        \/ \E i \in 1..4, j \in 1..4 : i + j > 5 /\ a[i] # 0 /\ b[j] # 0
        \/ \E i \in 1..4 : P(i, 5 - i)[2] # 0

\* The number of bits of a value below 65536 (0 for 0).
Ilog16(x) == CHOOSE n \in 0..16 : x < Pow2(n) /\ (n = 0 \/ x >= Pow2(n - 1))

\* maths::ilog on a word: the number of bits of a (0 for 0).
UIlog(a) ==
    IF a[4] # 0 THEN 48 + Ilog16(a[4])
    ELSE IF a[3] # 0 THEN 32 + Ilog16(a[3])
    ELSE IF a[2] # 0 THEN 16 + Ilog16(a[2])
    ELSE Ilog16(a[1])

\* maths::ilog on a small number.
ilog(n) == UIlog(U(n))

Min(x, y) == IF x < y THEN x ELSE y

Max(x, y) == IF x > y THEN x ELSE y

\* ------------------------------------------------------- range decoder

VARIABLES
    buf,    \* the packet bytes the RangeDecoder borrows
    rd,     \* the RangeDecoder: range, value, total, the two bit cursors
    last,   \* the last decode call: its name, argument, result and pre-state
    nops,   \* the number of decode calls made on rd
    al,     \* an allocation run: its inputs, its result and the run before
    celt,   \* the Celt: the state decode() keeps from frame to frame
    fr      \* a decode() call: its stage, its locals, its reads, the stream

SYM_BITS == 8

SYM_MAX == 255

CODE_BITS == 32

\* CODE_TOP = 1 << (CODE_BITS - 1)
CODE_TOP == UShl(U(1), CODE_BITS - 1)

\* CODE_BOT = CODE_TOP >> SYM_BITS
CODE_BOT == UShr(CODE_TOP, SYM_BITS)

UNI_BITS == 8

UZero == U(0)

\* A forward reader whose bits past the end of the data are what earlier
\* calls left behind, not zero.
FwdBitStale(i) ==
    IF (i \div 8) + 1 <= Len(buf)
    THEN (buf[(i \div 8) + 1] \div Pow2(7 - (i % 8))) % 2
    ELSE nops % 2

\* Bit i (0 = the first bit read) of the forward big-endian reader; the
\* reader yields zero bits once the data is exhausted.
FwdBit(i) ==
    IF (i \div 8) + 1 <= Len(buf)
    THEN (buf[(i \div 8) + 1] \div Pow2(7 - (i % 8))) % 2
    ELSE 0

\* BitReadBE::get_bits_32(n) with `pos` bits already consumed.
RECURSIVE GetBitsBE(_, _)
GetBitsBE(pos, n) ==
    IF n = 0 THEN 0 ELSE 2 * GetBitsBE(pos, n - 1) + FwdBit(pos + n - 1)

\* Bit j (0 = the first bit read) of the reverse little-endian reader:
\* fill() takes bytes from the tail of the buffer, the last byte least
\* significant, and nothing once the front is reached.
RevBit(j) ==
    IF j \div 8 < Len(buf)
    THEN (buf[Len(buf) - (j \div 8)] \div Pow2(j % 8)) % 2
    ELSE 0

\* ReverseBitReadLE::get_bits_32(n) with `pos` bits already consumed.
RECURSIVE GetBitsRev(_, _)
GetBitsRev(pos, n) ==
    IF n = 0 THEN 0
    ELSE GetBitsRev(pos, n - 1) + RevBit(pos + n - 1) * Pow2(n - 1)

\* x & (CODE_TOP - 1)
MaskCode(a) == <<a[1], a[2] % 32768, 0, 0>>

\* The one element of a singleton set.  `Val({e(x) : x \in {d}})` is
\* `let x = d; e(x)`: the bound x is evaluated once.
Val(S) == CHOOSE v \in S : TRUE

\* A loop bound one bit too high.
NormBoundShifted == UShl(CODE_BOT, 1)

\* The loop bound of normalize.
NormBound == CODE_BOT

\* normalize without `self.total += SYM_BITS`.
RECURSIVE normalize_uncounted(_)
normalize_uncounted(r0) ==
    Val({ IF r.range = UZero THEN [r EXCEPT !.panic = "normalize never ends"]
          ELSE IF ULe(r.range, NormBound) THEN
            normalize_uncounted([r EXCEPT
                !.value = MaskCode(UAdd(UShl(r.value, SYM_BITS),
                              U(SYM_MAX - GetBitsBE(r.fpos, SYM_BITS)))),
                !.range = UShl(r.range, SYM_BITS),
                !.fpos = r.fpos + SYM_BITS])
          ELSE r
        : r \in {r0} })

\* RangeDecoder::normalize.  With range = 0 the loop never ends.
RECURSIVE normalize(_)
normalize(r0) ==
    Val({ IF r.range = UZero THEN [r EXCEPT !.panic = "normalize never ends"]
          ELSE IF ULe(r.range, NormBound) THEN
            normalize([r EXCEPT
                !.value = MaskCode(UAdd(UShl(r.value, SYM_BITS),
                              U(SYM_MAX - GetBitsBE(r.fpos, SYM_BITS)))),
                !.range = UShl(r.range, SYM_BITS),
                !.total = r.total + SYM_BITS,
                !.fpos = r.fpos + SYM_BITS])
          ELSE r
        : r \in {r0} })

\* RangeDecoder::new
new ==
    normalize([range |-> U(128),
               value |-> U(127 - GetBitsBE(0, 7)),
               total |-> CODE_BITS + 1,
               fpos |-> 7,
               rpos |-> 0,
               ovf |-> FALSE,
               panic |-> "none"])

\* One base-16 digit of min(a / b, cap): q plus the largest multiple d * w,
\* d < 16, that keeps q + d * w <= cap and b * (q + d * w) <= a.
DivDigit(a, b, cap, q, w) ==
    Val({ q + w * (CHOOSE d \in ds : \A e \in ds : e <= d)
        : ds \in {{d \in 0..15 : /\ q + d * w <= cap
                                 /\ ULe(UMulS(b, q + d * w), a)}} })

\* min(a / b, cap) for words a, b with b # 0 and a cap of at most 2^15,
\* digit by digit from the most significant one.
DivCap(a, b, cap) ==
    Val({ Val({ Val({ DivDigit(a, b, cap, q1, 1)
                    : q1 \in {DivDigit(a, b, cap, q2, 16)} })
              : q2 \in {DivDigit(a, b, cap, q3, 256)} })
        : q3 \in {DivDigit(a, b, cap, 0, 4096)} })

\* RangeDecoder::get_scale_symbol: <<scale, k>>; scale is 0 when the
\* division by scale panics.
get_scale_symbol(r, total) ==
    Val({ IF scale = UZero THEN <<UZero, 0>>
          ELSE <<scale, total - Min(DivCap(r.value, scale, total) + 1, total)>>
        : scale \in {UDivS(r.range, total)} })

\* update with `s = scale * (total - low)`: the symbol's own share of the
\* range is taken off the value as well
update_from_low(r, scale, low, high, total) ==
    Val({ Val({ IF range = UZero
                THEN [r EXCEPT !.value = USub(r.value, s), !.range = range,
                               !.ovf = r.ovf \/ ULt(r.value, s)
                                       \/ (low = 0 /\ ULt(r.range, s)),
                               !.panic = "assert_ne!(range, 0)"]
                ELSE normalize([r EXCEPT
                               !.value = USub(r.value, s), !.range = range,
                               !.ovf = r.ovf \/ ULt(r.value, s)
                                       \/ (low = 0 /\ ULt(r.range, s))])
              : range \in {IF low # 0 THEN UMulS(scale, high - low)
                           ELSE USub(r.range, s)} })
        : s \in {UMulS(scale, total - low)} })

\* RangeDecoder::update
update(r, scale, low, high, total) ==
    Val({ Val({ IF range = UZero
                THEN [r EXCEPT !.value = USub(r.value, s), !.range = range,
                               !.ovf = r.ovf \/ ULt(r.value, s)
                                       \/ (low = 0 /\ ULt(r.range, s)),
                               !.panic = "assert_ne!(range, 0)"]
                ELSE normalize([r EXCEPT
                               !.value = USub(r.value, s), !.range = range,
                               !.ovf = r.ovf \/ ULt(r.value, s)
                                       \/ (low = 0 /\ ULt(r.range, s))])
              : range \in {IF low # 0 THEN UMulS(scale, high - low)
                           ELSE USub(r.range, s)} })
        : s \in {UMulS(scale, total - high)} })

\* decode_logp without `self.value -= scale` in the false branch.
decode_logp_keeps_value(r, logp) ==
    Val({ IF ULt(r.value, scale)
          THEN [rd |-> normalize([r EXCEPT !.range = scale]), ret |-> TRUE]
          ELSE [rd |-> normalize([r EXCEPT !.range = USub(r.range, scale)]),
                ret |-> FALSE]
        : scale \in {UShr(r.range, logp % 64)} })

\* RangeDecoder::decode_logp: the decoder after the call and the flag.
decode_logp(r, logp) ==
    Val({ IF ULt(r.value, scale)
          THEN [rd |-> normalize([r EXCEPT !.range = scale,
                                           !.ovf = r.ovf \/ logp >= 64]),
                ret |-> TRUE]
          ELSE [rd |-> normalize([r EXCEPT !.range = USub(r.range, scale),
                                           !.value = USub(r.value, scale),
                                           !.ovf = r.ovf \/ logp >= 64]),
                ret |-> FALSE]
        : scale \in {UShr(r.range, logp % 64)} })

\* position() with `>=` in place of `>`.
PositionGe(dist, sym) ==
    IF \E k \in 1..Len(dist) : dist[k] >= sym
    THEN (CHOOSE k \in 1..Len(dist) :
            dist[k] >= sym /\ \A j \in 1..(k - 1) : dist[j] < sym) - 1
    ELSE -1

\* dist.iter().position(|v| *v > sym): the 0-based index, or -1 for None.
Position(dist, sym) ==
    IF \E k \in 1..Len(dist) : dist[k] > sym
    THEN (CHOOSE k \in 1..Len(dist) :
            dist[k] > sym /\ \A j \in 1..(k - 1) : dist[j] <= sym) - 1
    ELSE -1

\* RangeDecoder::decode_icdf
decode_icdf(r, icdf) ==
    Val({ Val({ IF ss[1] = UZero
                THEN [rd |-> [r EXCEPT !.panic = "division by zero"], ret |-> 0]
                ELSE IF k < 0
                THEN [rd |-> [r EXCEPT !.panic = "unwrap on None"], ret |-> 0]
                ELSE [rd |-> update(r, ss[1],
                                    IF k > 0 THEN icdf.dist[k] ELSE 0,
                                    icdf.dist[k + 1], icdf.total),
                      ret |-> k]
              : k \in {Position(icdf.dist, ss[2])} })
        : ss \in {get_scale_symbol(r, icdf.total)} })

\* CeltOnly::rawbits
rawbits(r, len) ==
    [rd |-> [r EXCEPT !.rpos = r.rpos + len], ret |-> GetBitsRev(r.rpos, len)]

\* The total decode_uniform codes with: len capped to UNI_BITS bits.
UniformTotal(len) ==
    IF ilog(len - 1) > UNI_BITS
    THEN ((len - 1) \div Pow2(ilog(len - 1) - UNI_BITS)) + 1
    ELSE len

\* CeltOnly::decode_uniform
decode_uniform(r, len) ==
    Val({ IF ss[1] = UZero
          THEN [rd |-> [r EXCEPT !.panic = "division by zero"], ret |-> 0]
          ELSE Val({ IF ilog(len - 1) > UNI_BITS /\ r1.panic = "none"
                     THEN Val({ [rd |-> raw.rd,
                                 ret |-> ss[2] * Pow2(ilog(len - 1) - UNI_BITS)
                                         + raw.ret]
                              : raw \in {rawbits(r1, ilog(len - 1) - UNI_BITS)} })
                     ELSE [rd |-> r1, ret |-> ss[2]]
                   : r1 \in {update(r, ss[1], ss[2], ss[2] + 1,
                                    UniformTotal(len))} })
        : ss \in {get_scale_symbol(r, UniformTotal(len))} })

\* RangeDecoder::tell
tell(r) == r.total - UIlog(r.range)

\* --------------------------------------------- the program's icdf tables

TAPSET == [total |-> 4, dist |-> <<2, 3, 4>>]

MODEL_ENERGY_SMALL == [total |-> 4, dist |-> <<2, 3, 4>>]

MODEL_SPREAD == [total |-> 32, dist |-> <<7, 9, 30, 32>>]

ALLOC_TRIM ==
    [total |-> 128, dist |-> <<2, 4, 9, 19, 41, 87, 109, 119, 124, 126, 128>>]


\* ---------------------------------------------------------------------------
\* celt/decoder.rs: tables of the bit allocation.  Bands are numbered from 0
\* as in the source; band i is entry i + 1 of a table.

MAX_BANDS == 21

FREQ_RANGE ==
  <<1, 1, 1, 1, 1, 1, 1, 1, 2, 2, 2, 2, 4, 4, 4, 6, 6, 8, 12, 18, 22>>

\* STATIC_CAPS[lm + 1][stereo + 1][i + 1]
STATIC_CAPS ==
  << << <<224, 224, 224, 224, 224, 224, 224, 224, 160, 160, 160, 160,
          185, 185, 185, 178, 178, 168, 134, 61, 37>>,
        <<224, 224, 224, 224, 224, 224, 224, 224, 240, 240, 240, 240,
          207, 207, 207, 198, 198, 183, 144, 66, 40>> >>,
     << <<160, 160, 160, 160, 160, 160, 160, 160, 185, 185, 185, 185,
          193, 193, 193, 183, 183, 172, 138, 64, 38>>,
        <<240, 240, 240, 240, 240, 240, 240, 240, 207, 207, 207, 207,
          204, 204, 204, 193, 193, 180, 143, 66, 40>> >>,
     << <<185, 185, 185, 185, 185, 185, 185, 185, 193, 193, 193, 193,
          193, 193, 193, 183, 183, 172, 138, 65, 39>>,
        <<207, 207, 207, 207, 207, 207, 207, 207, 204, 204, 204, 204,
          201, 201, 201, 188, 188, 176, 141, 66, 40>> >>,
     << <<193, 193, 193, 193, 193, 193, 193, 193, 193, 193, 193, 193,
          194, 194, 194, 184, 184, 173, 139, 65, 39>>,
        <<204, 204, 204, 204, 204, 204, 204, 204, 201, 201, 201, 201,
          198, 198, 198, 187, 187, 175, 140, 66, 40>> >> >>

\* STATIC_ALLOC[row + 1][i + 1], rows 0..10
STATIC_ALLOC ==
  << <<0, 0, 0, 0, 0, 0, 0, 0, 0, 0, 0, 0, 0, 0, 0, 0, 0, 0, 0, 0, 0>>,
     <<90, 80, 75, 69, 63, 56, 49, 40, 34, 29, 20, 18, 10, 0, 0, 0, 0, 0, 0, 0, 0>>,
     <<110, 100, 90, 84, 78, 71, 65, 58, 51, 45, 39, 32, 26, 20, 12, 0, 0, 0, 0, 0, 0>>,
     <<118, 110, 103, 93, 86, 80, 75, 70, 65, 59, 53, 47, 40, 31, 23, 15, 4, 0, 0, 0, 0>>,
     <<126, 119, 112, 104, 95, 89, 83, 78, 72, 66, 60, 54, 47, 39, 32, 25, 17, 12, 1, 0, 0>>,
     <<134, 127, 120, 114, 103, 97, 91, 85, 78, 72, 66, 60, 54, 47, 41, 35, 29, 23, 16, 10, 1>>,
     <<144, 137, 130, 124, 113, 107, 101, 95, 88, 82, 76, 70, 64, 57, 51, 45, 39, 33, 26, 15, 1>>,
     <<152, 145, 138, 132, 123, 117, 111, 105, 98, 92, 86, 80, 74, 67, 61, 55, 49, 43, 36, 20, 1>>,
     <<162, 155, 148, 142, 133, 127, 121, 115, 108, 102, 96, 90, 84, 77, 71, 65, 59, 53, 46, 30, 1>>,
     <<172, 165, 158, 152, 143, 137, 131, 125, 118, 112, 106, 100, 94, 87, 81, 75, 69, 63, 56, 45, 20>>,
     <<200, 200, 200, 200, 200, 200, 200, 200, 198, 193, 188, 183, 178, 173, 168, 163, 158, 153, 148, 129, 104>> >>

LOG2_FRAC ==
  <<0, 8, 13, 16, 19, 21, 23, 24, 26, 27, 28, 29, 30, 31, 32, 32, 33, 34,
    34, 35, 36, 36, 37, 37>>

CELT_VECTOR == 11

ALLOC_STEPS == 6

\* a u8 value: shifts of FREQ_RANGE entries are done in u8 and drop the bits
\* shifted out
U8(x) == x % 256

\* a 21-entry array, every entry computed once
Arr(f) == SubSeq(f, 1, MAX_BANDS)

ZeroBands == Arr([i \in 1..MAX_BANDS |-> 0])

InBand(band, i) == band.start <= i /\ i < band.end


\* ---------------------------------------------------------------------------
\* Celt::decode_allocation, the part that follows the reads: caps, threshold,
\* trim_offset, the two bisections and the final pulses.  All of it is i32
\* arithmetic on values far below 2^31; x >> n of an i32 is the floor
\* division by 2^n, as \div is.

caps(lm, stereo) ==
  Arr([k \in 1..MAX_BANDS |->
        ((STATIC_CAPS[lm + 1][stereo + 1][k] + 64) * FREQ_RANGE[k]
           * Pow2(lm + stereo)) \div 4])

threshold(lm, stereo, band) ==
  Arr([k \in 1..MAX_BANDS |->
        IF InBand(band, k - 1)
          THEN Max((3 * FREQ_RANGE[k] * Pow2(lm + 3)) \div 16, stereo * 256)
          ELSE 0])

trim_offset(lm, stereo, band, alloc_trim) ==
  Arr([k \in 1..MAX_BANDS |->
        IF InBand(band, k - 1)
          THEN ((alloc_trim - (5 + lm))
                  * (FREQ_RANGE[k] * (band.end - (k - 1) - 1)
                       * Pow2(lm + 3 + stereo))) \div 64
               - (IF U8(FREQ_RANGE[k] * Pow2(lm)) = 1 THEN stereo * 256 ELSE 0)
          ELSE 0])

coded_channel_bits(stereo) == (stereo + 1) * 8

\* the closure bits_estimation, and the same expression in the outer
\* bisection; the caller has checked idx < CELT_VECTOR
bits_estimation(idx, k, lm, stereo, toff) ==
  Val({ IF bits # 0 THEN Max(bits + toff[k], 0) ELSE bits :
        bits \in {(FREQ_RANGE[k] * STATIC_ALLOC[idx + 1][k]
                     * Pow2(stereo) * Pow2(lm)) \div 4} })

\* line 597: total as usize > available, in the outer bisection
OuterOver(total, available) == total > available

\* the test of the inner bisection with its branches swapped
InnerUnder(total, available) == total <= available

\* line 664: total as usize > available, in the inner bisection
InnerOver(total, available) == total > available

\* the loop body of a bisection step (lines 584-591 and 656-661) for the
\* band k - 1, from s = [total, done]
BisectBand(s, bits, thr, cp, ccb, k) ==
  IF bits[k] >= thr[k] \/ s.done
    THEN [total |-> s.total + Min(bits[k], cp[k]), done |-> TRUE]
    ELSE [total |-> s.total + (IF bits[k] >= ccb THEN ccb ELSE 0),
          done |-> FALSE]

\* the loop of a bisection step over the bands hi - 1 down to lo (the upper
\* half of them, then the lower)
RECURSIVE BisectLoop(_, _, _, _, _, _, _)
BisectLoop(s, bits, thr, cp, ccb, lo, hi) ==
  IF lo >= hi THEN s
  ELSE IF hi = lo + 1 THEN BisectBand(s, bits, thr, cp, ccb, hi)
  ELSE Val({ BisectLoop(h, bits, thr, cp, ccb, lo, (lo + hi) \div 2) :
             h \in {BisectLoop(s, bits, thr, cp, ccb, (lo + hi) \div 2, hi)} })

\* the total of a bisection step
BisectTotal(bits, thr, cp, ccb, band) ==
  BisectLoop([total |-> 0, done |-> FALSE], bits, thr, cp, ccb,
             band.start, band.end).total

\* lines 564-603: the row the outer bisection ends on (low on exit)
RECURSIVE OuterBisect(_, _, _, _, _, _, _, _, _, _, _)
OuterBisect(low, high, lm, stereo, band, boost, toff, thr, cp, ccb, available) ==
  IF low > high THEN low
  ELSE Val({ IF OuterOver(BisectTotal(bits, thr, cp, ccb, band), available)
               THEN OuterBisect(low, center - 1, lm, stereo, band, boost,
                                toff, thr, cp, ccb, available)
               ELSE OuterBisect(center + 1, high, lm, stereo, band, boost,
                                toff, thr, cp, ccb, available) :
             <<center, bits>> \in
               { <<c, Arr([k \in 1..MAX_BANDS |->
                            IF InBand(band, k - 1)
                              THEN bits_estimation(c, k, lm, stereo, toff)
                                   + boost[k]
                              ELSE 0])>> :
                 c \in {(low + high) \div 2} } })

\* lines 615-641: bits1 and bits2 from the rows low and high
bits1(low, lm, stereo, band, boost, toff) ==
  Arr([k \in 1..MAX_BANDS |->
        IF InBand(band, k - 1)
          THEN bits_estimation(low, k, lm, stereo, toff)
               + (IF boost[k] # 0 /\ low # 0 THEN boost[k] ELSE 0)
          ELSE 0])

bits2(high, b1, lm, stereo, band, boost, toff) ==
  Arr([k \in 1..MAX_BANDS |->
        IF InBand(band, k - 1)
          THEN Max(bits_estimation(high, k, lm, stereo, toff)
                     + (IF boost[k] # 0 THEN boost[k] ELSE 0) - b1[k], 0)
          ELSE 0])

\* bits1[j] + (center * bits2[j] >> ALLOC_STEPS) for every band
Interpolate(b1, b2, center) ==
  Arr([k \in 1..MAX_BANDS |-> b1[k] + (center * b2[k]) \div Pow2(ALLOC_STEPS)])

\* lines 645-669: low after ALLOC_STEPS steps of the inner bisection
RECURSIVE InnerBisect(_, _, _, _, _, _, _, _, _, _)
InnerBisect(step, low, high, b1, b2, thr, cp, ccb, band, available) ==
  IF step >= ALLOC_STEPS THEN low
  ELSE Val({ IF InnerOver(BisectTotal(Interpolate(b1, b2, center), thr, cp,
                                        ccb, band),
                            available)
               THEN InnerBisect(step + 1, low, center, b1, b2, thr, cp, ccb,
                                band, available)
               ELSE InnerBisect(step + 1, center, high, b1, b2, thr, cp, ccb,
                                band, available) :
             center \in {(low + high) \div 2} })

RECURSIVE SumSeq(_)
SumSeq(s) == IF s = << >> THEN 0 ELSE Head(s) + SumSeq(Tail(s))

\* line 687 without the cap
PulseUncapped(bits, cap) == bits

\* line 687: let bits = bits.min(caps[i])
PulseCap(bits, cap) == Min(bits, cap)

\* the final loop without the threshold test of lines 677-685: every band
\* gets its interpolated bits
FinalBandNoThreshold(s, bits, thr, cp, ccb, k) ==
  [pulses |-> << PulseCap(bits[k], cp[k]) >> \o s.pulses, done |-> TRUE]

\* lines 671-692 for the band k - 1, from s = [pulses, done]; pulses holds
\* the bands above it, lowest first
FinalBand(s, bits, thr, cp, ccb, k) ==
  Val({ [pulses |-> << PulseCap(IF d THEN bits[k]
                                ELSE IF bits[k] >= ccb THEN ccb ELSE 0,
                                cp[k]) >> \o s.pulses,
         done |-> d] :
        d \in {bits[k] >= thr[k] \/ s.done} })

\* lines 671-692 over the bands hi - 1 down to lo (the upper half of them,
\* then the lower)
RECURSIVE FinalLoop(_, _, _, _, _, _, _)
FinalLoop(s, bits, thr, cp, ccb, lo, hi) ==
  IF lo >= hi THEN s
  ELSE IF hi = lo + 1 THEN FinalBand(s, bits, thr, cp, ccb, hi)
  ELSE Val({ FinalLoop(h, bits, thr, cp, ccb, lo, (lo + hi) \div 2) :
             h \in {FinalLoop(s, bits, thr, cp, ccb, (lo + hi) \div 2, hi)} })

\* the pulses of the bands of the range, lowest first
FinalPulses(bits, thr, cp, ccb, band) ==
  FinalLoop([pulses |-> << >>, done |-> FALSE], bits, thr, cp, ccb,
            band.start, band.end).pulses

\* lines 542-692 as a function of what the reads left: the rows of the outer
\* bisection, the inner low and the pulses of the bands of the range.  With an
\* outer bisection that never found a total above the budget the row high is
\* CELT_VECTOR and STATIC_ALLOC[high] is an index out of range.
Allocate(lm, stereo, band, boost, alloc_trim, available) ==
  Val({ IF band.start < band.end /\ env.high >= CELT_VECTOR
          THEN [panic |-> "index out of bounds: STATIC_ALLOC", low |-> env.high - 1,
                high |-> env.high, ilow |-> 0, caps |-> env.cp,
                pulses |-> << >>]
          ELSE Val({ Val({ [panic |-> "none", low |-> env.high - 1,
                            high |-> env.high, ilow |-> il, caps |-> env.cp,
                            pulses |-> FinalPulses(Interpolate(b[1], b[2], il),
                                                   env.thr, env.cp, env.ccb,
                                                   band)] :
                           il \in {InnerBisect(0, 0, Pow2(ALLOC_STEPS), b[1],
                                               b[2], env.thr, env.cp, env.ccb,
                                               band, available)} }) :
                     b \in { <<x, bits2(env.high, x, lm, stereo, band, boost,
                                        env.toff)>> :
                             x \in {bits1(env.high - 1, lm, stereo, band,
                                          boost, env.toff)} } }) :
        env \in { [cp |-> e[1], thr |-> e[2], toff |-> e[3], ccb |-> e[4],
                   high |-> OuterBisect(1, CELT_VECTOR - 1, lm, stereo, band,
                                        boost, e[3], e[2], e[1], e[4],
                                        available)] :
                  e \in {<<caps(lm, stereo), threshold(lm, stereo, band),
                           trim_offset(lm, stereo, band, alloc_trim),
                           coded_channel_bits(stereo)>>} } })

\* lines 476-477: the boost increment of band k - 1; both shifts are u8
quanta(k, lm, stereo) ==
  Val({ Min(U8(q * 8), Max(q, 48)) :
        q \in {U8(FREQ_RANGE[k] * Pow2(lm + stereo))} })

\* ---------------------------------------------------------------------------
\* entropy.rs: the bit position, and the operations of the RangeDecoder that
\* celt/decoder.rs calls and the source tree does not hold (available,
\* available_frac, to_end, decode_laplace), taken from the specification.

\* RangeDecoder::tell_frac in the unchecked build: the shift count lg - 16 is
\* taken modulo 64, the products and sums modulo 2^64.  ovf tells that the
\* checked build panics on one of them.
RECURSIVE TellFracLoop(_, _, _, _)
TellFracLoop(n, lg, rq15, ovf) ==
    IF n = 0 THEN [lg |-> lg, ovf |-> ovf]
    ELSE Val({ Val({ TellFracLoop(
                       n - 1,
                       UAdd(UShl(lg, 1), UShr(sq, 16)),
                       IF UShr(sq, 16) # UZero THEN UShr(sq, 1) ELSE sq,
                       \/ ovf
                       \/ ULt(lg, U(16))
                       \/ ~ULt(sh, U(64))
                       \/ UMulWraps(rq15, rq15)
                       \/ lg[4] >= 32768
                       \/ ULt(UAdd(UShl(lg, 1), UShr(sq, 16)), UShl(lg, 1)))
                   : sq \in {UShr(UMul(rq15, rq15), sh[1] % 64)} })
             : sh \in {USub(lg, U(16))} })

tell_frac(r) ==
    Val({ Val({ [ret |-> USub(U(r.total * 8), t.lg),
                 ovf |-> t.ovf \/ ULt(U(r.total * 8), t.lg),
                 underflow |-> ULt(U(r.total * 8), t.lg)]
              : t \in {TellFracLoop(3, U(lg), UShr(r.range, (lg - 16) % 64),
                                    lg < 16)} })
        : lg \in {UIlog(r.range)} })

\* the number of bits of the packet
size_in_bits == 8 * Len(buf)

\* RangeDecoder::available: the bits left of the packet, none once tell()
\* has passed its end
available(r) == Max(size_in_bits - tell(r), 0)

\* RangeDecoder::available_frac: the same in 1/8 bit, from tell_frac
available_frac(r) ==
    Val({ [ret |-> IF ULe(t.ret, U(8 * size_in_bits))
                   THEN 8 * size_in_bits - UNat(t.ret) ELSE 0,
           rd |-> [r EXCEPT !.ovf = r.ovf \/ t.ovf]]
        : t \in {tell_frac(r)} })

\* RangeDecoder::to_end: count every bit left as consumed
to_end(r) == [r EXCEPT !.total = r.total + available(r)]

\* the geometric walk of decode_laplace: <<value, low, symbol>>
RECURSIVE LaplaceWalk(_, _, _, _, _)
LaplaceWalk(center, value, low, symbol, decay) ==
    IF symbol > 1 /\ center >= low + 2 * symbol
    THEN LaplaceWalk(center, value + 1, low + 2 * symbol,
                     (((2 * symbol - 2) * decay) \div 32768) + 1, decay)
    ELSE <<value, low, symbol>>

\* <<value, low, symbol>> of decode_laplace for the scaled position center
LaplaceSymbol(center, symbol, decay) ==
    IF center < symbol THEN <<0, 0, symbol>>
    ELSE Val({ Val({ IF center < t[2] + t[3] THEN <<0 - t[1], t[2], t[3]>>
                     ELSE <<t[1], t[2] + t[3], t[3]>>
                   : t \in {IF w[3] <= 1
                            THEN <<w[1] + ((center - w[2]) \div 2),
                                   w[2] + 2 * ((center - w[2]) \div 2), w[3]>>
                            ELSE w} })
             : w \in {LaplaceWalk(center, 1, symbol,
                                  1 + (((32768 - 32 - symbol) * (16384 - decay))
                                         \div 32768), decay)} })

\* RangeDecoder::decode_laplace (RFC 6716, ec_laplace_decode)
decode_laplace(r, symbol, decay) ==
    Val({ IF ss[1] = UZero
          THEN [rd |-> [r EXCEPT !.panic = "division by zero"], ret |-> 0]
          ELSE Val({ [rd |-> update(r, ss[1], t[2], Min(t[2] + t[3], 32768),
                                    32768),
                      ret |-> t[1]]
                   : t \in {LaplaceSymbol(ss[2], symbol, decay)} })
        : ss \in {get_scale_symbol(r, 32768)} })

\* ---------------------------------------------------------------------------
\* celt/decoder.rs: constants and tables of the frame decoder.  The f32
\* values are exact multiples of a power of two and are held as integers:
\* energies and ALPHA_COEF, BETA_COEF in 1/32768, POSTFILTER_TAPS in 1/4096,
\* the postfilter gain in 1/32.

SHORT_BLOCKSIZE == 120

MIN_PERIOD == 15

SPREAD_NORMAL == 2

\* one in the unit of the energies
EnergyOne == 32768

\* POSTFILTER_TAPS[tapset + 1], in 1/4096
POSTFILTER_TAPS == <<<<1256, 889, 531>>, <<1900, 1098, 0>>, <<3276, 410, 0>>>>

\* ALPHA_COEF[lm + 1], in 1/32768
ALPHA_COEF == <<29440, 26112, 21248, 16384>>

\* BETA_COEF[lm + 1], in 1/32768
BETA_COEF == <<32768 - 30147, 32768 - 22282, 32768 - 12124, 32768 - 6554>>

\* beta of the intra model: 1 - 4915 / 32768
BetaIntra == 32768 - 4915

\* COARSE_ENERGY_INTRA[lm + 1][k + 1]
COARSE_ENERGY_INTRA ==
  <<
    <<24, 179, 48, 138, 54, 135, 54, 132, 53, 134, 56, 133, 55, 132, 55,
      132, 61, 114, 70, 96, 74, 88, 75, 88, 87, 74, 89, 66, 91, 67, 100,
      59, 108, 50, 120, 40, 122, 37, 97, 43, 78, 50>>,
    <<23, 178, 54, 115, 63, 102, 66, 98, 69, 99, 74, 89, 71, 91, 73, 91,
      78, 89, 86, 80, 92, 66, 93, 64, 102, 59, 103, 60, 104, 60, 117, 52,
      123, 44, 138, 35, 133, 31, 97, 38, 77, 45>>,
    <<21, 178, 59, 110, 71, 86, 75, 85, 84, 83, 91, 66, 88, 73, 87, 72, 92,
      75, 98, 72, 105, 58, 107, 54, 115, 52, 114, 55, 112, 56, 129, 51,
      132, 40, 150, 33, 140, 29, 98, 35, 77, 42>>,
    <<22, 178, 63, 114, 74, 82, 84, 83, 92, 82, 103, 62, 96, 72, 96, 67,
      101, 73, 107, 72, 113, 55, 118, 52, 125, 52, 118, 52, 117, 55, 135,
      49, 137, 39, 157, 32, 145, 29, 97, 33, 77, 40>> >>

\* COARSE_ENERGY_INTER[lm + 1][k + 1]
COARSE_ENERGY_INTER ==
  <<
    <<72, 127, 65, 129, 66, 128, 65, 128, 64, 128, 62, 128, 64, 128, 64,
      128, 92, 78, 92, 79, 92, 78, 90, 79, 116, 41, 115, 40, 114, 40, 132,
      26, 132, 26, 145, 17, 161, 12, 176, 10, 177, 11>>,
    <<83, 78, 84, 81, 88, 75, 86, 74, 87, 71, 90, 73, 93, 74, 93, 74, 109,
      40, 114, 36, 117, 34, 117, 34, 143, 17, 145, 18, 146, 19, 162, 12,
      165, 10, 178, 7, 189, 6, 190, 8, 177, 9>>,
    <<61, 90, 93, 60, 105, 42, 107, 41, 110, 45, 116, 38, 113, 38, 112, 38,
      124, 26, 132, 27, 136, 19, 140, 20, 155, 14, 159, 16, 158, 18, 170,
      13, 177, 10, 187, 8, 192, 6, 175, 9, 159, 10>>,
    <<42, 121, 96, 66, 108, 43, 111, 40, 117, 44, 123, 32, 120, 36, 119,
      33, 127, 33, 134, 34, 139, 21, 147, 23, 152, 20, 158, 25, 154, 26,
      166, 21, 173, 16, 184, 13, 184, 10, 150, 13, 139, 15>> >>

\* TF_SELECT[lm + 1][transient + 1][select + 1][changed + 1]
TF_SELECT ==
  << << << <<0, -1>>, <<0, -1>> >>, << <<0, -1>>, <<0, -1>> >> >>,
     << << <<0, -1>>, <<0, -2>> >>, << <<1, 0>>, <<1, -1>> >> >>,
     << << <<0, -2>>, <<0, -3>> >>, << <<2, 0>>, <<1, -1>> >> >>,
     << << <<0, -2>>, <<0, -3>> >>, << <<3, 0>>, <<1, -1>> >> >> >>

\* 1 for true, 0 for false: `b as usize`
B2N(b) == IF b THEN 1 ELSE 0


\* ---------------------------------------------------------------------------
\* celt/decoder.rs: the frame decoder.  A decode() call is followed through
\* x = [celt, rd, fr]: the Celt, the RangeDecoder and the locals of the call
\* (fr.pc is the stage the call is in, fr.log the reads made so far).

\* Celt::new: the fields decode() reads or writes
CeltNew ==
    [stereo_pkt |-> FALSE, lm |-> 0, spread |-> SPREAD_NORMAL,
     energy |-> <<ZeroBands, ZeroBands>>,
     collapse_masks |-> <<ZeroBands, ZeroBands>>,
     period_new |-> <<0, 0>>,
     gains_new |-> <<<<0, 0, 0>>, <<0, 0, 0>>>>,
     pulses |-> ZeroBands, tf_change |-> ZeroBands,
     anticollapse_bit |-> 0, blocks |-> 0, blocksize |-> 0]

\* a panic of the RangeDecoder or of decode() itself has ended the call
Dead(x) == x.rd.panic # "none" \/ x.fr.panic # "none"

\* the read `op` with the argument `arg`, made in the current stage for
\* band and channel `at`, and what it returned
Logged(x, op, arg, at, res) ==
    [x EXCEPT !.rd = res.rd,
              !.fr.log = Append(@, [stage |-> x.fr.pc, op |-> op, arg |-> arg,
                                    at |-> at, ret |-> res.ret])]

XLogp(x, at, logp) ==
    IF Dead(x) THEN [x |-> x, ret |-> FALSE]
    ELSE Val({ [x |-> Logged(x, "decode_logp", logp, at, res), ret |-> res.ret]
             : res \in {decode_logp(x.rd, logp)} })

XIcdf(x, at, icdf) ==
    IF Dead(x) THEN [x |-> x, ret |-> 0]
    ELSE Val({ [x |-> Logged(x, "decode_icdf", icdf, at, res), ret |-> res.ret]
             : res \in {decode_icdf(x.rd, icdf)} })

XUniform(x, at, len) ==
    IF Dead(x) THEN [x |-> x, ret |-> 0]
    ELSE Val({ [x |-> Logged(x, "decode_uniform", len, at, res), ret |-> res.ret]
             : res \in {decode_uniform(x.rd, len)} })

XRaw(x, at, len) ==
    IF Dead(x) THEN [x |-> x, ret |-> 0]
    ELSE Val({ [x |-> Logged(x, "rawbits", len, at, res), ret |-> res.ret]
             : res \in {rawbits(x.rd, len)} })

XLaplace(x, at, symbol, decay) ==
    IF Dead(x) THEN [x |-> x, ret |-> 0]
    ELSE Val({ [x |-> Logged(x, "decode_laplace", <<symbol, decay>>,
                            at, res), ret |-> res.ret]
             : res \in {decode_laplace(x.rd, symbol, decay)} })

\* rd.available_frac(): no read, but the overflows of tell_frac are kept
XAvailFrac(x) ==
    Val({ [x |-> [x EXCEPT !.rd = a.rd], ret |-> a.ret]
        : a \in {available_frac(x.rd)} })

\* lines 717-720 without the call of to_end
SilenceNoFastForward(r, silence) == r

\* lines 717-720: if silence { rd.to_end() }
SilenceFastForward(r, silence) == IF silence THEN to_end(r) ELSE r

\* reset_gains that clears the gains of frames[0] only
reset_gains_channel0(c) == [c EXCEPT !.gains_new[1] = <<0, 0, 0>>]

\* Celt::reset_gains
reset_gains(c) == [c EXCEPT !.gains_new = <<<<0, 0, 0>>, <<0, 0, 0>>>>]

\* decode(), lines 705-722: lm, the silence flag, the fast forward and
\* reset_gains
SilenceStage(x) ==
    Val({ Val({ [s.x EXCEPT !.rd = SilenceFastForward(s.x.rd, s.ret),
                            !.fr.silence = s.ret,
                            !.celt = reset_gains(s.x.celt)]
              : s \in {IF available(x1.rd) > 0 THEN XLogp(x1, << >>, 15)
                       ELSE [x |-> x1, ret |-> TRUE]} })
        : x1 \in {[x EXCEPT !.celt.lm =
                     ilog(x.fr.frame_size \div SHORT_BLOCKSIZE) - 1]} })

\* lines 303-307: the period and the gains both frames get
PostfilterSet(c, period, gain_bits, tapset) ==
    [c EXCEPT !.period_new = <<Max(period, MIN_PERIOD), Max(period, MIN_PERIOD)>>,
              !.gains_new =
                 <<[k \in 1..3 |-> POSTFILTER_TAPS[tapset + 1][k] * 3 * gain_bits],
                   [k \in 1..3 |-> POSTFILTER_TAPS[tapset + 1][k] * 3 * gain_bits]>>]

\* Celt::parse_postfilter
parse_postfilter(x) ==
    Val({ IF ~p.ret THEN p.x
          ELSE Val({ Val({ Val({ Val({
                 IF Dead(t.x) THEN t.x
                 ELSE [t.x EXCEPT
                         !.celt = PostfilterSet(t.x.celt,
                                    16 * Pow2(o.ret) + pr.ret - 1, g.ret + 1,
                                    t.ret),
                         !.fr.pfparams = [octave |-> o.ret,
                                          period |-> 16 * Pow2(o.ret) + pr.ret - 1,
                                          gain_bits |-> g.ret + 1,
                                          tapset |-> t.ret]]
                 : t \in {IF available(g.x.rd) >= 2
                          THEN XIcdf(g.x, << >>, TAPSET)
                          ELSE [x |-> g.x, ret |-> 0]} })
               : g \in {XRaw(pr.x, << >>, 3)} })
             : pr \in {XRaw(o.x, << >>, 4 + o.ret)} })
           : o \in {XUniform(p.x, << >>, 6)} })
        : p \in {XLogp(x, << >>, 1)} })

\* decode(), lines 723-725
PostfilterStage(x) ==
    IF x.fr.band.start = 0 /\ available(x.rd) >= 16
    THEN parse_postfilter([x EXCEPT !.fr.pf = TRUE])
    ELSE x

\* lines 738-746: a mono packet folds the energies of the two channels
FoldEnergy(c) ==
    IF c.stereo_pkt THEN c
    ELSE [c EXCEPT !.energy[1] =
            Arr([k \in 1..MAX_BANDS |-> Max(c.energy[1][k], c.energy[2][k])])]

\* decode(), lines 727-750: the transient flag, blocks, blocksize, the fold
\* of the energies and the reset of collapse_masks
TransientStage(x) ==
    Val({ [t.x EXCEPT
             !.fr.transient = t.ret,
             !.celt = [FoldEnergy(t.x.celt) EXCEPT
                         !.blocks = IF t.ret THEN Pow2(x.celt.lm) ELSE 1,
                         !.blocksize = x.fr.frame_size
                                         \div (IF t.ret THEN Pow2(x.celt.lm)
                                               ELSE 1),
                         !.collapse_masks = <<ZeroBands, ZeroBands>>]]
        : t \in {IF x.celt.lm # 0 /\ available(x.rd) >= 3
                 THEN [XLogp(x, << >>, 3) EXCEPT !.x.fr.trdec = TRUE]
                 ELSE [x |-> x, ret |-> FALSE]} })

\* the values a sequence holds
Range(s) == {s[k] : k \in 1..Len(s)}

\* a * b / 32768 rounded down, for an energy a and a coefficient b
MulQ15(a, b) == (a \div 32768) * b + ((a % 32768) * b) \div 32768

\* (v >> 1) ^ -(v & 1)
ZigZag(v) == IF v % 2 = 0 THEN v \div 2 ELSE 0 - (v \div 2) - 1

\* <<alpha, beta, model>> of decode_coarse_energy, lines 314-326
CoarseModel(lm, intra) ==
    IF intra THEN <<0, BetaIntra, COARSE_ENERGY_INTRA[lm + 1]>>
    ELSE <<ALPHA_COEF[lm + 1], BETA_COEF[lm + 1], COARSE_ENERGY_INTER[lm + 1]>>

\* lines 339-352: the residual of band i, channel j
CoarseResidual(x, i, j, model) ==
    Val({ IF av >= 15
          THEN XLaplace(x, <<i, j>>, model[2 * Min(i, 20) + 1] * 128,
                        model[2 * Min(i, 20) + 2] * 64)
          ELSE IF av >= 1
          THEN Val({ [x |-> s.x, ret |-> ZigZag(s.ret)]
                   : s \in {XIcdf(x, <<i, j>>, MODEL_ENERGY_SMALL)} })
          ELSE [x |-> x, ret |-> -1]
        : av \in {available(x.rd)} })

\* the closure coarse_energy_band, lines 333-358
coarse_energy_band(x, i, j, prev, m) ==
    IF ~InBand(x.fr.band, i)
    THEN [x |-> [x EXCEPT !.celt.energy[j + 1][i + 1] = 0], prev |-> prev]
    ELSE Val({ [x |-> [v.x EXCEPT !.celt.energy[j + 1][i + 1] =
                         MulQ15(Max(@, -9 * EnergyOne), m[1]) + prev[j + 1]
                           + v.ret * EnergyOne],
                prev |-> [prev EXCEPT ![j + 1] = @ + m[2] * v.ret]]
             : v \in {CoarseResidual(x, i, j, m[3])} })

\* band i of the loop with the two calls of lines 360-363 in the other
\* order: channel 1 of a stereo packet, then channel 0
CoarseBandChannel1First(s, i, m) ==
    Val({ IF ~Dead(b1.x)
          THEN coarse_energy_band(b1.x, i, 0, b1.prev, m)
          ELSE b1
        : b1 \in {IF s.x.celt.stereo_pkt
                  THEN coarse_energy_band(s.x, i, 1, s.prev, m)
                  ELSE s} })

\* lines 360-364: band i of the loop, channel 0 and then, for a stereo
\* packet, channel 1
CoarseBand(s, i, m) ==
    Val({ IF s.x.celt.stereo_pkt /\ ~Dead(b0.x)
          THEN coarse_energy_band(b0.x, i, 1, b0.prev, m)
          ELSE b0
        : b0 \in {coarse_energy_band(s.x, i, 0, s.prev, m)} })

\* lines 360-364: the bands lo .. hi - 1 in turn (the first half of them,
\* then the second), from s = [x, prev]
RECURSIVE CoarseLoop(_, _, _, _)
CoarseLoop(s, lo, hi, m) ==
    IF lo >= hi \/ Dead(s.x) THEN s
    ELSE IF hi = lo + 1 THEN CoarseBand(s, lo, m)
    ELSE Val({ CoarseLoop(h, (lo + hi) \div 2, hi, m)
             : h \in {CoarseLoop(s, lo, (lo + hi) \div 2, m)} })

\* Celt::decode_coarse_energy
decode_coarse_energy(x) ==
    Val({ CoarseLoop([x |-> [f.x EXCEPT !.fr.intra = f.ret],
                      prev |-> <<0, 0>>], 0, MAX_BANDS,
                     CoarseModel(x.celt.lm, f.ret)).x
        : f \in {IF available(x.rd) > 3 THEN XLogp(x, << >>, 3)
                 ELSE [x |-> x, ret |-> FALSE]} })

\* band i of the loop with `*tf_change = false` for a band without a read
TfBandUnreadFalse(s, i, bits, select_bit) ==
    IF s.av > s.field_bits + B2N(select_bit)
    THEN Val({ [x |-> r.x, av |-> available(r.x.rd), field_bits |-> bits[2],
                diff |-> (s.diff # r.ret),
                tf_changed |-> Append(s.tf_changed, s.diff # r.ret)]
             : r \in {XLogp(s.x, <<i>>, s.field_bits)} })
    ELSE [s EXCEPT !.field_bits = bits[2],
                   !.tf_changed = Append(s.tf_changed, FALSE)]

\* lines 415-423: band i of the loop, from s = [x, av, field_bits, diff,
\* tf_changed]
TfBand(s, i, bits, select_bit) ==
    IF s.av > s.field_bits + B2N(select_bit)
    THEN Val({ [x |-> r.x, av |-> available(r.x.rd), field_bits |-> bits[2],
                diff |-> (s.diff # r.ret),
                tf_changed |-> Append(s.tf_changed, s.diff # r.ret)]
             : r \in {XLogp(s.x, <<i>>, s.field_bits)} })
    ELSE [s EXCEPT !.field_bits = bits[2],
                   !.tf_changed = Append(s.tf_changed, s.diff)]

\* lines 414-424: the bands lo .. hi - 1 in turn (the first half of them,
\* then the second)
RECURSIVE TfLoop(_, _, _, _, _)
TfLoop(s, lo, hi, bits, select_bit) ==
    IF lo >= hi THEN s
    ELSE IF hi = lo + 1 THEN TfBand(s, lo, bits, select_bit)
    ELSE Val({ TfLoop(h, (lo + hi) \div 2, hi, bits, select_bit)
             : h \in {TfLoop(s, lo, (lo + hi) \div 2, bits, select_bit)} })

\* lines 432-436 run over all bands: a band outside the range gets the entry
\* of an unchanged band
TfSetAllBands(c, band, rows, tf_changed) ==
    [c EXCEPT !.tf_change =
       Arr([k \in 1..MAX_BANDS |->
             IF InBand(band, k - 1)
             THEN rows[B2N(tf_changed[k - band.start]) + 1]
             ELSE rows[1]])]

\* lines 432-436: tf_change of the bands of the range
TfSet(c, band, rows, tf_changed) ==
    [c EXCEPT !.tf_change =
       Arr([k \in 1..MAX_BANDS |->
             IF InBand(band, k - 1)
             THEN rows[B2N(tf_changed[k - band.start]) + 1]
             ELSE c.tf_change[k]])]

\* Celt::decode_tf_changes
decode_tf_changes(x) ==
    Val({ Val({ Val({ [s.x EXCEPT
                         !.fr.tf_changed = t.tf_changed,
                         !.fr.select = s.ret,
                         !.celt = TfSet(s.x.celt, x.fr.band,
                                        e.tf_select[B2N(s.ret) + 1],
                                        t.tf_changed)]
                    : s \in {IF /\ e.select_bit
                                /\ e.tf_select[1][B2N(TRUE \in Range(t.tf_changed)) + 1]
                                   # e.tf_select[2][B2N(TRUE \in Range(t.tf_changed)) + 1]
                             THEN XLogp(t.x, << >>, 1)
                             ELSE [x |-> t.x, ret |-> FALSE]} })
              : t \in {TfLoop([x |-> x, av |-> e.av, field_bits |-> e.bits[1],
                               diff |-> FALSE, tf_changed |-> << >>],
                              x.fr.band.start, x.fr.band.end, e.bits,
                              e.select_bit)} })
        : e \in { [av |-> a, bits |-> b,
                   tf_select |-> TF_SELECT[x.celt.lm + 1][B2N(x.fr.transient) + 1],
                   select_bit |-> x.celt.lm # 0 /\ a > b[1]]
                  : <<a, b>> \in {<<available(x.rd),
                                    IF x.fr.transient THEN <<2, 4>>
                                    ELSE <<4, 5>>>>} } })


\* line 473: println!(.., rd.tell_frac())
XTellFrac(x) == [x EXCEPT !.rd.ovf = @ \/ tell_frac(x.rd).ovf]

\* a budget above every total the bisections compare it with
BudgetTop == 2147483647

\* the budget `available` (a usize) as a number: every total is far below
\* 2^31, so a budget that does not fit 31 bits compares as BudgetTop does
BudgetNat(w) == IF UFits(w) THEN UNat(w) ELSE BudgetTop

\* lines 479-487: the dynalloc loop of band i
RECURSIVE BoostBand(_, _, _, _, _, _, _)
BoostBand(x, i, q, band_dynalloc, boost, boost_size, cap) ==
    IF Dead(x) THEN [x |-> x, boost |-> boost, size |-> boost_size]
    ELSE Val({ IF band_dynalloc * 8 + boost_size < af.ret /\ boost < cap
               THEN Val({ IF add.ret
                          THEN BoostBand(add.x, i, q, 1, boost + q,
                                         boost_size + q, cap)
                          ELSE [x |-> add.x, boost |-> boost,
                                size |-> boost_size]
                        : add \in {XLogp(af.x, <<i>>, band_dynalloc)} })
               ELSE [x |-> af.x, boost |-> boost, size |-> boost_size]
             : af \in {XAvailFrac(x)} })

\* lines 476-491: band i of the loop, from s = [x, dynalloc, boost, size]
BoostStep(s, i, cp) ==
    Val({ [x |-> b.x,
           dynalloc |-> IF b.boost # 0 /\ s.dynalloc > 2 THEN s.dynalloc - 1
                        ELSE s.dynalloc,
           boost |-> [s.boost EXCEPT ![i + 1] = b.boost],
           size |-> b.size]
        : b \in {BoostBand(s.x, i,
                           quanta(i + 1, s.x.celt.lm, B2N(s.x.celt.stereo_pkt)),
                           s.dynalloc, 0, s.size, cp[i + 1])} })

\* lines 475-492: the bands lo .. hi - 1 in turn (the first half of them,
\* then the second)
RECURSIVE BoostLoop(_, _, _, _)
BoostLoop(s, lo, hi, cp) ==
    IF lo >= hi \/ Dead(s.x) THEN s
    ELSE IF hi = lo + 1 THEN BoostStep(s, lo, cp)
    ELSE Val({ BoostLoop(h, (lo + hi) \div 2, hi, cp)
             : h \in {BoostLoop(s, lo, (lo + hi) \div 2, cp)} })

\* av - n if av >= n, for a word av and a small n: <<the word, whether n
\* was taken>>
Take(av, n) ==
    IF ULt(av, U(n)) THEN <<av, FALSE>> ELSE <<USub(av, U(n)), TRUE>>

\* lines 502-538: the budget after the reservations, anticollapse_bit and
\* whether the checked build panics on `available_frac() - 1`
Reserve(af, lm, blocks, stereo, band) ==
    Val({ Val({ Val({
            [available |->
               IF stereo = 1 /\ ~ULt(s[1], U(LOG2_FRAC[band.end - band.start + 1]))
               THEN Take(USub(s[1], U(LOG2_FRAC[band.end - band.start + 1])),
                         8)[1]
               ELSE s[1],
             anticollapse_bit |-> IF a[2] THEN 8 ELSE 0,
             skip_bit |-> IF s[2] THEN 8 ELSE 0,
             ovf |-> af = 0]
            : s \in {Take(a[1], 8)} })
          : a \in {IF blocks > 1 /\ lm >= 2 /\ ~ULt(av, U((lm + 2) * 8))
                   THEN Take(av, 8) ELSE <<av, FALSE>>} })
        : av \in {USub(U(af), U(1))} })

\* lines 615-641 index STATIC_ALLOC by the rows low and high of the outer
\* bisection; lines 671-692 store the pulses of the bands of the range
PulsesSet(c, band, out) ==
    [c EXCEPT !.pulses =
       Arr([k \in 1..MAX_BANDS |->
             IF InBand(band, k - 1) /\ out.panic = "none"
             THEN out.pulses[k - band.start]
             ELSE c.pulses[k]])]

\* Celt::decode_allocation
decode_allocation(x) ==
    Val({ Val({ Val({ Val({ Val({ Val({
      IF Dead(af.x) THEN af.x
      ELSE [af.x EXCEPT
              !.rd.ovf = @ \/ r.ovf,
              !.celt = [PulsesSet(af.x.celt, x.fr.band, out) EXCEPT
                          !.anticollapse_bit = r.anticollapse_bit],
              !.fr.spread = sp.ret,
              !.fr.boost = b.boost,
              !.fr.alloc_trim = tr.ret,
              !.fr.available = r.available,
              !.fr.alloc = out,
              !.fr.underflow = r.ovf,
              !.fr.panic = out.panic]
      : out \in {Allocate(x.celt.lm, B2N(x.celt.stereo_pkt), x.fr.band,
                          b.boost, tr.ret, BudgetNat(r.available))} })
      : r \in {Reserve(af.ret, x.celt.lm, x.celt.blocks,
                       B2N(x.celt.stereo_pkt), x.fr.band)} })
      : af \in {XAvailFrac(tr.x)} })
      : tr \in {Val({ IF t.ret > b.size + 48 THEN XIcdf(t.x, << >>, ALLOC_TRIM)
                      ELSE [x |-> t.x, ret |-> 5]
                    : t \in {XAvailFrac(b.x)} })} })
      : b \in {BoostLoop([x |-> XTellFrac(sp.x), dynalloc |-> 6,
                          boost |-> ZeroBands, size |-> 0],
                         x.fr.band.start, x.fr.band.end,
                         caps(x.celt.lm, B2N(x.celt.stereo_pkt)))} })
      : sp \in {IF available(x.rd) > 4 THEN XIcdf(x, << >>, MODEL_SPREAD)
                ELSE [x |-> x, ret |-> SPREAD_NORMAL]} })

\* the stage decode() goes to after the stage pc, with coarse energy and
\* tf changes swapped
NextStageSwapped(pc) ==
    CASE pc = "silence" -> "postfilter"
      [] pc = "postfilter" -> "transient"
      [] pc = "transient" -> "tf"
      [] pc = "tf" -> "coarse"
      [] pc = "coarse" -> "alloc"
      [] pc = "alloc" -> "done"

\* decode(), lines 709-754: the stage that follows the stage pc
NextStage(pc) ==
    CASE pc = "silence" -> "postfilter"
      [] pc = "postfilter" -> "transient"
      [] pc = "transient" -> "coarse"
      [] pc = "coarse" -> "tf"
      [] pc = "tf" -> "alloc"
      [] pc = "alloc" -> "done"

\* what the stage pc does to x
StageOf(pc, x) ==
    CASE pc = "silence" -> SilenceStage(x)
      [] pc = "postfilter" -> PostfilterStage(x)
      [] pc = "transient" -> TransientStage(x)
      [] pc = "coarse" -> decode_coarse_energy(x)
      [] pc = "tf" -> decode_tf_changes(x)
      [] pc = "alloc" -> decode_allocation(x)

\* decode() with its assertion after the assignment of lm (line 707)
AssertAfterLm(x) ==
    [x EXCEPT !.celt.lm = ilog(x.fr.frame_size \div SHORT_BLOCKSIZE) - 1,
              !.fr.pc = IF x.fr.band.end <= MAX_BANDS THEN "silence"
                        ELSE "rejected"]

\* decode(), line 703, its first statement:
\* assert!(band.end <= MAX_BANDS)
AssertBandEnd(x) ==
    [x EXCEPT !.fr.pc = IF x.fr.band.end <= MAX_BANDS THEN "silence"
                        ELSE "rejected"]

\* ------------------------------------- the range decoder driven directly

\* Bounds of the model.
MaxBufLen == 3

MaxOps == 2

Bytes == {0, 165, 255}

Buffers == UNION {[1..n -> Bytes] : n \in 0..MaxBufLen}

\* The arguments the callers in src/celt/decoder.rs pass, and a length
\* above 256 for decode_uniform.
LogpArgs == {0, 1, 3, 15}

IcdfArgs == {TAPSET, MODEL_SPREAD, ALLOC_TRIM}

UniformArgs == {1, 6, 257, 1000}

RawArgs == {3, 5}

rdvars == <<buf, rd, last, nops>>

vars == <<buf, rd, last, nops, al, celt, fr>>

\* the value of al where no allocation is run
AllocUnused == [runs |-> 0]

\* the value of fr where decode() is not called
FrameUnused == [pc |-> "unused"]

Call(op, arg, res) ==
    /\ rd' = res.rd
    /\ last' = [op |-> op, arg |-> arg, ret |-> res.ret, pre |-> rd]
    /\ nops' = nops + 1
    /\ buf' = buf
    /\ UNCHANGED <<al, celt, fr>>

InitRD ==
    /\ buf \in Buffers
    /\ nops = 0
    /\ rd = new
    /\ last = [op |-> "new", arg |-> 0, ret |-> 0, pre |-> new]
    /\ al = AllocUnused
    /\ celt = CeltNew
    /\ fr = FrameUnused

CanCall == nops < MaxOps /\ rd.panic = "none"

DecodeLogp ==
    /\ CanCall
    /\ \E logp \in LogpArgs : Call("decode_logp", logp, decode_logp(rd, logp))

DecodeIcdf ==
    /\ CanCall
    /\ \E icdf \in IcdfArgs : Call("decode_icdf", icdf, decode_icdf(rd, icdf))

DecodeUniform ==
    /\ CanCall
    /\ \E len \in UniformArgs :
          Call("decode_uniform", len, decode_uniform(rd, len))

RawBits ==
    /\ CanCall
    /\ \E len \in RawArgs : Call("rawbits", len, rawbits(rd, len))

NextRD == DecodeLogp \/ DecodeIcdf \/ DecodeUniform \/ RawBits

SpecRD == InitRD /\ [][NextRD]_vars


\* ------------------------------------------- the allocation run directly

\* Bound of the model: the number of budgets tried on one frame setting.
MaxRuns == 2

AllocBands ==
  {[start |-> 0, end |-> 21], [start |-> 17, end |-> 21],
   [start |-> 0, end |-> 3]}

\* The boosts the dynalloc loop can leave: a whole number of quanta on a
\* band of the range, nothing elsewhere.
BoostPatterns(lm, stereo, band) ==
  {ZeroBands,
   [ZeroBands EXCEPT ![band.start + 1] = 2 * quanta(band.start + 1, lm, stereo),
                     ![band.end] = 5 * quanta(band.end, lm, stereo)]}

\* The symbols of ALLOC_TRIM: the lowest, the default and the highest.
TrimArgs == {0, 5, 10}

\* Budgets in 1/8 bit, from nothing to more than every band's cap.
Budgets == {0, 40, 300, 2000, 12000, 70000}

NoRun ==
  [panic |-> "not run", low |-> 0, high |-> 0, ilow |-> 0, caps |-> ZeroBands,
   pulses |-> << >>]

InitAlloc ==
  /\ \E lm \in 0..3, stereo \in 0..1, band \in AllocBands,
        alloc_trim \in TrimArgs, budget \in Budgets :
       \E boost \in BoostPatterns(lm, stereo, band) :
         al = [lm |-> lm, stereo |-> stereo, band |-> band, boost |-> boost,
               alloc_trim |-> alloc_trim, available |-> budget,
               out |-> NoRun, prev |-> [available |-> 0, out |-> NoRun],
               runs |-> 0]
  /\ buf = << >>
  /\ rd = new
  /\ last = [op |-> "new", arg |-> 0, ret |-> 0, pre |-> new]
  /\ nops = 0
  /\ celt = CeltNew
  /\ fr = FrameUnused

\* decode_allocation from line 542 on, on the inputs of the state
RunAllocation ==
  /\ al.out.panic = "not run"
  /\ al' = [al EXCEPT !.out = Allocate(al.lm, al.stereo, al.band, al.boost,
                                       al.alloc_trim, al.available),
                      !.runs = al.runs + 1]
  /\ UNCHANGED <<buf, rd, last, nops, celt, fr>>

\* the same frame setting with a budget that is not smaller
RaiseBudget ==
  /\ al.out.panic # "not run"
  /\ al.runs < MaxRuns
  /\ \E b \in Budgets :
       /\ b >= al.available
       /\ al' = [al EXCEPT !.available = b, !.out = NoRun,
                           !.prev = [available |-> al.available,
                                     out |-> al.out]]
  /\ UNCHANGED <<buf, rd, last, nops, celt, fr>>

NextAlloc == RunAllocation \/ RaiseBudget

SpecAlloc == InitAlloc /\ [][NextAlloc]_vars

\* --------------------------------------- decode() on a stream of packets

\* Bound of the model: the longest packet, in bytes.
MaxPacketLen == 6

PacketBytes == {0, 165, 240, 255}

\* frame_duration as usize: lm 0 and lm 3
FrameSizes == {120, 960}

\* The band ranges decode() is called with: one is empty and the last one
\* ends above MAX_BANDS.
PacketBands ==
    {[start |-> 0, end |-> 21], [start |-> 17, end |-> 21],
     [start |-> 0, end |-> 3], [start |-> 0, end |-> 0],
     [start |-> 0, end |-> 22]}

\* A packet: its bytes (one byte value repeated), pkt.stereo, and the
\* frame_duration and band the caller passes to decode().
Packets ==
    [bytes : {[k \in 1..n |-> b] : n \in 0..MaxPacketLen, b \in PacketBytes},
     stereo : BOOLEAN, frame_size : FrameSizes, band : PacketBands]

\* Packets whose decode() returns and leaves energies or pulses that are
\* not zero: a mono one, a stereo one that leaves energies in both
\* channels, and one with a postfilter that leaves gains.
Primers ==
    {[bytes |-> <<165, 165, 165, 165, 165>>, stereo |-> FALSE,
      frame_size |-> 120, band |-> [start |-> 17, end |-> 21]],
     [bytes |-> <<165, 165, 165, 165, 165, 165>>, stereo |-> TRUE,
      frame_size |-> 120, band |-> [start |-> 17, end |-> 21]],
     [bytes |-> <<165, 165, 165, 165, 165, 165>>, stereo |-> FALSE,
      frame_size |-> 960, band |-> [start |-> 0, end |-> 3]]}

\* One packet on a new Celt, or one packet after a primer.
Streams == {<<p>> : p \in Packets} \cup {<<p, q>> : p \in Primers, q \in Packets}

\* the locals of a decode() call that has not started
FrameNew(pending) ==
    [pc |-> "idle", frame_size |-> 0, band |-> [start |-> 0, end |-> 0],
     log |-> << >>, panic |-> "none",
     silence |-> FALSE, pf |-> FALSE,
     pfparams |-> [octave |-> 0, period |-> 0, gain_bits |-> 0, tapset |-> 0],
     trdec |-> FALSE, transient |-> FALSE, intra |-> FALSE,
     tf_changed |-> << >>, select |-> FALSE, spread |-> SPREAD_NORMAL,
     boost |-> ZeroBands, alloc_trim |-> 5, available |-> UZero,
     alloc |-> NoRun, underflow |-> FALSE,
     entry |-> [rd |-> new, celt |-> CeltNew],
     pending |-> pending]

InitFrame ==
    /\ buf = << >>
    /\ rd = new
    /\ last = [op |-> "new", arg |-> 0, ret |-> 0, pre |-> new]
    /\ nops = 0
    /\ al = AllocUnused
    /\ celt = CeltNew
    /\ \E s \in Streams : fr = FrameNew(s)

\* Celt::setup(pkt) and RangeDecoder::new(buf) for the next packet of the
\* stream
NewPacket ==
    /\ fr.pc \in {"idle", "done"}
    /\ fr.pending # << >>
    /\ buf' = Head(fr.pending).bytes
    /\ rd' = new'
    /\ celt' = [celt EXCEPT !.stereo_pkt = Head(fr.pending).stereo]
    /\ fr' = [FrameNew(Tail(fr.pending)) EXCEPT
                !.pc = "ready",
                !.frame_size = Head(fr.pending).frame_size,
                !.band = Head(fr.pending).band,
                !.entry = [rd |-> rd', celt |-> celt']]
    /\ UNCHANGED <<last, nops, al>>

\* decode() is entered: its assertion passes or rejects the call
DecodeEnter ==
    /\ fr.pc = "ready"
    /\ \E y \in {AssertBandEnd([celt |-> celt, rd |-> rd, fr |-> fr])} :
         /\ celt' = y.celt
         /\ rd' = y.rd
         /\ fr' = y.fr
    /\ UNCHANGED <<buf, last, nops, al>>

\* one stage of decode()
Stage(pc) ==
    /\ fr.pc = pc
    /\ \E y \in {StageOf(pc, [celt |-> celt, rd |-> rd, fr |-> fr])} :
         /\ celt' = y.celt
         /\ rd' = y.rd
         /\ fr' = [y.fr EXCEPT !.pc = IF Dead(y) THEN "panic" ELSE NextStage(pc)]
    /\ UNCHANGED <<buf, last, nops, al>>

Silence == Stage("silence")

Postfilter == Stage("postfilter")

Transient == Stage("transient")

CoarseEnergy == Stage("coarse")

TfChanges == Stage("tf")

Allocation == Stage("alloc")

NextFrame ==
    \/ NewPacket
    \/ DecodeEnter
    \/ Silence
    \/ Postfilter
    \/ Transient
    \/ CoarseEnergy
    \/ TfChanges
    \/ Allocation

SpecFrame == InitFrame /\ [][NextFrame]_vars

\* ------------------------------------------------ claims: range decoder

\* Whether the last call returned (it did not panic).
Returned == rd.panic = "none"

\* C1: whenever new or a decode call returns, 0 < range <= 2^31.
C1_RangeBounded ==
    Returned => ULt(UZero, rd.range) /\ ULe(rd.range, CODE_TOP)

\* A decode_icdf call that returned after normalize pulled a byte.
C1_Witness ==
    /\ Returned
    /\ last.op = "decode_icdf"
    /\ rd.total > last.pre.total
    /\ ULe(rd.range, CODE_TOP)

\* scaled_value = total - min(value / (range / total) + 1, total), from
\* the state before the call.
ScaledValue(r, total) ==
    total - Min(DivCap(r.value, UDivS(r.range, total), total) + 1, total)

\* dist[i] with dist[-1] := 0, for a 0-based index i.
DistAt(dist, i) == IF i < 0 THEN 0 ELSE dist[i + 1]

\* C2: the index k decode_icdf returns satisfies
\* dist[k-1] <= scaled_value < dist[k].
C2_IcdfBracket ==
    (Returned /\ last.op = "decode_icdf") =>
        /\ DistAt(last.arg.dist, last.ret - 1)
              <= ScaledValue(last.pre, last.arg.total)
        /\ ScaledValue(last.pre, last.arg.total)
              < DistAt(last.arg.dist, last.ret)

\* decode_icdf returned a symbol other than the first.
C2_Witness == Returned /\ last.op = "decode_icdf" /\ last.ret > 0

\* C3: in every reachable decoder state decode_logp(0) returns true.
C3_Logp0True == Returned => decode_logp(rd, 0).ret = TRUE

\* decode_logp(0) was called after an earlier decode call and returned true.
C3_Witness ==
    /\ Returned
    /\ nops >= 2
    /\ last.op = "decode_logp"
    /\ last.arg = 0
    /\ last.ret = TRUE


\* ---------------------------------------------------- claims: allocation

\* Whether the allocation of the state ran to its end.
AllocReturned(out) == out.panic = "none"

\* C4: after decode_allocation every band i of the range has
\* pulses[i] <= ((STATIC_CAPS[lm][stereo][i] + 64) * FREQ_RANGE[i])
\*                 << (lm + stereo) >> 2, whatever the budget, the boost and
\* alloc_trim.
C4_PulsesWithinCaps ==
    AllocReturned(al.out) =>
      \A n \in 1..Len(al.out.pulses) :
        al.out.pulses[n] <=
          ((STATIC_CAPS[al.lm + 1][al.stereo + 1][al.band.start + n] + 64)
             * FREQ_RANGE[al.band.start + n] * Pow2(al.lm + al.stereo)) \div 4

\* An allocation returned with a boosted band held down to exactly its cap.
C4_Witness ==
    /\ AllocReturned(al.out)
    /\ \E n \in 1..Len(al.out.pulses) :
         /\ al.boost[al.band.start + n] > 0
         /\ al.out.pulses[n] = al.out.caps[al.band.start + n]

\* C5: with lm, stereo, band range, boost and alloc_trim fixed, a budget
\* a <= b never gets a larger sum of pulses than b.
C5_MonotoneInBudget ==
    (/\ AllocReturned(al.prev.out)
     /\ AllocReturned(al.out)
     /\ al.prev.available <= al.available) =>
      SumSeq(al.prev.out.pulses) <= SumSeq(al.out.pulses)

\* Two budgets on one setting, the larger one getting strictly more pulses.
C5_Witness ==
    /\ AllocReturned(al.prev.out)
    /\ AllocReturned(al.out)
    /\ al.prev.available < al.available
    /\ 0 < SumSeq(al.prev.out.pulses)
    /\ SumSeq(al.prev.out.pulses) < SumSeq(al.out.pulses)

\* ------------------------------------------------------ claims on decode()

\* the reads of a call that were made in the stage st
ReadsOf(st) == {k \in 1..Len(fr.log) : fr.log[k].stage = st}

\* the stage a call is in comes after the transient flag
PastTransient == fr.pc \in {"coarse", "tf", "alloc", "done", "panic"}

\* the position of a stage in decode()
StageIndex(st) ==
    CASE st = "silence" -> 1
      [] st = "postfilter" -> 2
      [] st = "transient" -> 3
      [] st = "coarse" -> 4
      [] st = "tf" -> 5
      [] st = "alloc" -> 6

AllZero(s) == \A k \in 1..Len(s) : s[k] = 0

\* C6: in a decode() call whose silence flag is true (decoded by
\* decode_logp(15), or assumed because no bit remained), the postfilter
\* parameters are not parsed and the transient flag is not decoded and is
\* false: neither stage reads from the range decoder.
C6_SilenceSkipsPostfilterAndTransient ==
    (fr.pc \notin {"idle", "ready", "rejected"} /\ fr.silence)
        => /\ ~fr.pf
           /\ ~fr.trdec
           /\ ~fr.transient
           /\ ReadsOf("postfilter") = {}
           /\ ReadsOf("transient") = {}

\* a frame whose silence flag was decoded as true, for band 0 and lm = 3,
\* is past the transient stage
C6_Witness ==
    /\ PastTransient
    /\ fr.silence
    /\ ReadsOf("silence") # {}
    /\ fr.band.start = 0
    /\ celt.lm = 3
    /\ Len(buf) = MaxPacketLen

\* C7: when a decode() call whose silence flag is true returns, every
\* energy of both channels and every pulses entry is zero, whatever the
\* previous frame left.
C7_SilentFrameAllZero ==
    (fr.pc = "done" /\ fr.silence)
        => /\ AllZero(celt.energy[1])
           /\ AllZero(celt.energy[2])
           /\ AllZero(celt.pulses)

\* C8: whatever the budget, decode() runs to completion: no subtraction
\* underflows, no table is indexed out of range and no assertion fails.
C8_BudgetExhaustionNeverFails ==
    fr.pc \notin {"idle", "ready", "rejected"}
        => /\ fr.pc # "panic"
           /\ ~fr.underflow

\* C9: the reads of a decode() call come in the order silence, postfilter,
\* transient, coarse energy, tf changes, allocation: no read of an earlier
\* stage follows a read of a later one, and a stage that is skipped (the
\* silence flag assumed, the postfilter not parsed, the transient flag not
\* decoded) makes no read.
C9_ReadsInStageOrder ==
    fr.pc \notin {"idle", "ready", "rejected"}
        => /\ \A i, j \in 1..Len(fr.log) :
                i < j => StageIndex(fr.log[i].stage) <= StageIndex(fr.log[j].stage)
           /\ available(fr.entry.rd) = 0 => ReadsOf("silence") = {}
           /\ ~fr.pf => ReadsOf("postfilter") = {}
           /\ ~fr.trdec => ReadsOf("transient") = {}

\* a call that returned after reads in each of the six stages
C9_Witness ==
    /\ fr.pc = "done"
    /\ \A st \in {"silence", "postfilter", "transient", "coarse", "tf", "alloc"} :
         ReadsOf(st) # {}

\* C10: a decode() call with band.end above MAX_BANDS is rejected with the
\* range decoder (range, value, total, both cursors) and every field of the
\* Celt as they were when it was called, and with no read made.
C10_RejectedBeforeAnyRead ==
    fr.pc = "rejected"
        => /\ fr.band.end > MAX_BANDS
           /\ rd = fr.entry.rd
           /\ celt = fr.entry.celt
           /\ fr.log = << >>

\* a call for lm = 3 is rejected on a Celt that holds the pulses and the lm
\* of an earlier frame
C10_Witness ==
    /\ fr.pc = "rejected"
    /\ fr.frame_size = 8 * SHORT_BLOCKSIZE
    /\ ~AllZero(celt.pulses)
    /\ Len(buf) = MaxPacketLen

\* C11: for every n >= 1, also above 256, decode_uniform(n) returns a value
\* v with 0 <= v < n.
C11_UniformInRange ==
    (Returned /\ last.op = "decode_uniform") =>
        /\ 0 <= last.ret
        /\ last.ret < last.arg

\* C12: in every reachable state tell_frac() lies between 8 * tell() - 7 and
\* 8 * tell(), and its final subtraction does not underflow.
C12_TellFracWithinTell ==
    Returned =>
        /\ ~tell_frac(rd).underflow
        /\ UFits(tell_frac(rd).ret)
        /\ 8 * tell(rd) - 7 <= UNat(tell_frac(rd).ret)
        /\ UNat(tell_frac(rd).ret) <= 8 * tell(rd)

\* C13: the bits of the buffer consumed at the front plus the bits of the
\* buffer consumed at the tail never exceed 8 times the buffer length.  Each
\* cursor counts only bits the buffer holds.
C13_CursorsNeverCross ==
    Returned =>
        Min(rd.fpos, 8 * Len(buf)) + Min(rd.rpos, 8 * Len(buf))
            <= 8 * Len(buf)

Replay(l) ==
    CASE l.op = "decode_logp" -> decode_logp(l.pre, l.arg)
      [] l.op = "decode_icdf" -> decode_icdf(l.pre, l.arg)
      [] l.op = "decode_uniform" -> decode_uniform(l.pre, l.arg)
      [] l.op = "rawbits" -> rawbits(l.pre, l.arg)
      [] OTHER -> [rd |-> new, ret |-> 0]

C16_AdjacentRowsInTable ==
    al.runs > 0 =>
        /\ al.out.high = al.out.low + 1
        /\ 0 <= al.out.low
        /\ al.out.high <= CELT_VECTOR - 1

\* The caps of the bands of the range, lowest first.
RangeCaps(out, band) == SubSeq(out.caps, band.start + 1, band.end)

\* C17: the sum of pulses[i] over the bands of the range never exceeds the
\* budget `available` the bisections were given, that is what is left after
\* the anticollapse, skip and stereo reservations.
C17_PulsesWithinBudget ==
    (al.runs > 0 /\ AllocReturned(al.out)) =>
        SumSeq(al.out.pulses) <= al.available

\* An allocation returned pulses on a budget that is below the sum of the
\* caps, so the budget and not the caps limits them.
C17_Witness ==
    /\ al.runs > 0
    /\ AllocReturned(al.out)
    /\ 0 < SumSeq(al.out.pulses)
    /\ al.available < SumSeq(RangeCaps(al.out, al.band))

\* C18: after decode_coarse_energy, for channel 0 and channel 1, for mono
\* and for stereo packets, the energy of every band outside the range
\* [start, end) is 0.
C18_OutOfRangeEnergiesZero ==
    fr.pc = "tf" =>
        \A j \in 1..2 : \A i \in 0..(MAX_BANDS - 1) :
            ~InBand(fr.band, i) => celt.energy[j][i + 1] = 0

\* a read of the band loop of decode_coarse_energy
IsBandRead(e) == e.stage = "coarse" /\ Len(e.at) = 2

\* the reads of the band loop of decode_coarse_energy, in the order made
BandReads == SelectSeq(fr.log, IsBandRead)

\* C19: for a stereo packet the coarse-energy reads come in the order
\* (band b, channel 0), (band b, channel 1), (band b + 1, channel 0), ...
\* from the first band of the range upwards: the k-th read is for band
\* start + (k - 1) / 2 and channel (k - 1) mod 2.
C19_StereoReadsInterleaved ==
    (fr.pc \notin {"idle", "ready", "rejected"} /\ celt.stereo_pkt) =>
        \A k \in 1..Len(BandReads) :
            BandReads[k].at = <<fr.band.start + (k - 1) \div 2, (k - 1) % 2>>

\* decode_coarse_energy has read both channels of two bands or more of a
\* stereo packet.
C19_Witness ==
    /\ fr.pc = "tf"
    /\ celt.stereo_pkt
    /\ Len(BandReads) >= 4

\* the intra flag was read: decode_logp(3) at the head of
\* decode_coarse_energy
IntraFlagRead(log) ==
    \E k \in 1..Len(log) :
        /\ log[k].stage = "coarse"
        /\ log[k].op = "decode_logp"
        /\ log[k].at = << >>

\* C20: decode_coarse_energy decodes the intra flag with decode_logp(3)
\* when at least 3 bits remain, exactly 3 included, and does not decode it
\* when fewer than 3 remain.
C20_IntraFlagFromThreeBits ==
    [][fr.pc = "coarse" =>
          (available(rd) >= 3 <=> IntraFlagRead(fr'.log))]_vars

\* the spread symbol was read: decode_icdf(MODEL_SPREAD) in decode_allocation
SpreadRead(log) ==
    \E k \in 1..Len(log) :
        /\ log[k].stage = "alloc"
        /\ log[k].op = "decode_icdf"
        /\ log[k].arg = MODEL_SPREAD

\* C21: decode_allocation decodes the spread symbol with the spread icdf
\* when at least 4 bits remain, exactly 4 included, and takes the default
\* normal (2) without a read when fewer than 4 remain.
C21_SpreadFromFourBits ==
    [][fr.pc = "alloc" =>
          /\ available(rd) >= 4 <=> SpreadRead(fr'.log)
          /\ available(rd) < 4 => fr'.spread = SPREAD_NORMAL]_vars

\* decode_tf_changes read a flag for band i
TfBandRead(i) ==
    \E k \in 1..Len(fr.log) : fr.log[k].stage = "tf" /\ fr.log[k].at = <<i>>

\* C22 as stated: after decode_tf_changes a band of the range for which no
\* flag was decoded has tf_changed = false, whatever the running diff of
\* the earlier bands.
C22_UnreadBandFalse ==
    fr.pc = "alloc" =>
        \A n \in 1..Len(fr.tf_changed) :
            ~TfBandRead(fr.band.start + n - 1) => fr.tf_changed[n] = FALSE

\* C22 amended: a band of the range for which no flag was decoded takes the
\* running diff, that is the tf_changed of the band before it, and false if
\* it is the first band of the range.
C22_UnreadBandKeepsDiff ==
    fr.pc = "alloc" =>
        \A n \in 1..Len(fr.tf_changed) :
            ~TfBandRead(fr.band.start + n - 1) =>
                fr.tf_changed[n] = (n > 1 /\ fr.tf_changed[n - 1])

\* A band without a read follows a band whose flag left diff true.
C22_Witness ==
    /\ fr.pc = "alloc"
    /\ \E n \in 2..Len(fr.tf_changed) :
         /\ ~TfBandRead(fr.band.start + n - 1)
         /\ TfBandRead(fr.band.start + n - 2)
         /\ fr.tf_changed[n - 1]

\* the select reads of decode_tf_changes: decode_logp not made for a band
SelectReads(log) ==
    {k \in 1..Len(log) : log[k].stage = "tf" /\ log[k].at = << >>}

\* the two rows TF_SELECT[lm][transient] of the call
SelectRows == TF_SELECT[celt.lm + 1][B2N(fr.transient) + 1]

\* lm != 0 and more bits at entry than the first flag takes (line 408)
SelectEnabled ==
    celt.lm # 0 /\ available(rd) > (IF fr.transient THEN 2 ELSE 4)

\* C23: decode_tf_changes reads the select bit, with one decode_logp(1),
\* exactly when the select bit is enabled and the two rows of
\* TF_SELECT[lm][transient] differ at `changed`; otherwise select is false
\* and nothing is read for it.  After it tf_change[i] is
\* TF_SELECT[lm][transient][select][tf_changed[i]] for the bands of the
\* range, and tf_change of the other bands is as it was.
C23_SelectBitAndTfChange ==
    [][(fr.pc = "tf" /\ rd'.panic = "none") =>
         /\ SelectReads(fr'.log) # {} <=>
              /\ SelectEnabled
              /\ SelectRows[1][B2N(TRUE \in Range(fr'.tf_changed)) + 1]
                   # SelectRows[2][B2N(TRUE \in Range(fr'.tf_changed)) + 1]
         /\ Cardinality(SelectReads(fr'.log)) <= 1
         /\ \A k \in SelectReads(fr'.log) :
              /\ fr'.log[k].op = "decode_logp"
              /\ fr'.log[k].arg = 1
              /\ fr'.log[k].ret = fr'.select
         /\ SelectReads(fr'.log) = {} => fr'.select = FALSE
         /\ \A i \in 0..(MAX_BANDS - 1) :
              celt'.tf_change[i + 1] =
                IF InBand(fr.band, i)
                THEN SelectRows[B2N(fr'.select) + 1]
                               [B2N(fr'.tf_changed[i - fr.band.start + 1]) + 1]
                ELSE celt.tf_change[i + 1]]_vars

\* decode_tf_changes read the select bit as true for a range with bands.
C23_Witness ==
    /\ fr.pc = "alloc"
    /\ fr.select
    /\ fr.band.start < fr.band.end
    /\ \E k \in 1..Len(fr.log) : fr.log[k].stage = "tf" /\ fr.log[k].at = << >>

\* the boosts granted to band i: the dynalloc reads of decode_allocation for
\* the band that returned true (lines 480-483)
Grants(log, i) ==
    Cardinality({k \in 1..Len(log) : /\ log[k].stage = "alloc"
                                     /\ log[k].op = "decode_logp"
                                     /\ log[k].at = <<i>>
                                     /\ log[k].ret = TRUE})

\* max(FREQ_RANGE[i] << scale, 6) << 3 with scale = lm + stereo, as a number
StatedQuanta(i, lm, stereo) == Max(FREQ_RANGE[i + 1] * Pow2(lm + stereo), 6) * 8

\* C24: every boost granted to band i by the dynalloc loop adds exactly
\* max(FREQ_RANGE[i] << scale, 6) << 3 to boost[i], with scale = lm + stereo,
\* whatever the band, lm and channel count: after decode_allocation boost[i]
\* is that quantum times the number of boosts granted to the band.
C24_BoostAddsQuantum ==
    [][(fr.pc = "alloc" /\ rd'.panic = "none") =>
         \A i \in 0..(MAX_BANDS - 1) :
           InBand(fr.band, i) =>
             fr'.boost[i + 1] =
               Grants(fr'.log, i)
                 * StatedQuanta(i, celt.lm, B2N(celt.stereo_pkt))]_vars

\* the reads of parse_postfilter
PfReads(log) == {k \in 1..Len(log) : log[k].stage = "postfilter"}

\* parse_postfilter ran and its presence flag was true
PfPresent(log) ==
    \E k \in PfReads(log) : log[k].op = "decode_logp" /\ log[k].ret = TRUE

\* C25: the postfilter parameters are parsed only when the band range
\* starts at 0 and at least 16 bits remain (and then they are); after every
\* decode() that returns both channels hold the same period_new and the same
\* gains_new; and in a frame whose postfilter is not parsed, or whose
\* presence flag is false, the gains_new of both channels are all zero.
C25_PostfilterBothChannels ==
    [][/\ fr.pc = "postfilter" =>
            (PfReads(fr'.log) # {} <=>
               fr.band.start = 0 /\ available(rd) >= 16)
       /\ fr'.pc = "done" =>
            /\ celt'.period_new[1] = celt'.period_new[2]
            /\ celt'.gains_new[1] = celt'.gains_new[2]
            /\ ~PfPresent(fr'.log) =>
                 /\ celt'.gains_new[1] = <<0, 0, 0>>
                 /\ celt'.gains_new[2] = <<0, 0, 0>>]_vars

\* A decode() that returns without a postfilter, entered with the gains of
\* an earlier frame's postfilter.
C25_Witness ==
    /\ fr.pc = "done"
    /\ ~PfPresent(fr.log)
    /\ fr.entry.celt.gains_new[1] # <<0, 0, 0>>
    /\ fr.entry.celt.gains_new[2] # <<0, 0, 0>>

\* C26: after RangeDecoder::new and after every decode_logp, decode_icdf
\* and decode_uniform call, on any buffer, value < range; the subtractions
\* `value -= s` of update and `value -= scale` of decode_logp have not
\* underflowed, and the assertion range != 0 of update (and every other
\* check) has passed.
C26_ValueBelowRange ==
    /\ rd.panic = "none"
    /\ ~rd.ovf
    /\ ULt(rd.value, rd.range)
    /\ (last.op = "decode_logp" /\ last.ret = FALSE) =>
          ULe(UShr(last.pre.range, last.arg), last.pre.value)

\* A second call that went through update with a scale times a positive
\* factor taken off the value.
C26_Witness ==
    /\ nops >= 2
    /\ last.op = "decode_uniform"
    /\ last.arg = 6
    /\ last.ret < 5
    /\ ULt(rd.value, last.pre.value)
    /\ ULt(rd.value, rd.range)

====
